---- MODULE Spec2Model ----
(***************************************************************************)
(* Model of cordl's il2cpp access layer (cordl_internals): the offset      *)
(* checker, the instance and static field accessors, the Box/Unbox bridge  *)
(* and RunMethodRethrow.  The header files under src/ hold several         *)
(* revisions of the same functions; a revision is part of the build        *)
(* configuration `cfg`, chosen once (in Init) and never changed.           *)
(***************************************************************************)
EXTENDS Integers, Sequences, FiniteSets, TLC

VARIABLES
    cfg,        \* build configuration: revision and preprocessor defines
    call,       \* the operation about to run: its template and call arguments
    mem,        \* bytes of the memory that holds the accessed instance
    boxes,      \* boxed objects the runtime allocated (value_box)
    invokes,    \* number of runtime_invoke calls so far
    statics,    \* function-local statics of FindField / get/setStaticField
    threads,    \* per-thread position inside a static field access
    env,        \* what the foreign runtime would answer (class, field lookup)
    last        \* record of the last completed operation

vars == <<cfg, call, mem, boxes, invokes, statics, threads, env, last>>

(***************************************************************************)
(* Bounds of the model.                                                    *)
(***************************************************************************)
\* width of std::size_t in bits (64 in the real build)
WordBits == 3

Word == 0 .. (2^WordBits - 1)

NoOp == [op |-> "none"]

(***************************************************************************)
(* Offset/bounds checker.  offset_check<instance_sz, offset, value_sz> is a *)
(* struct that exists only when its requires-clause holds; the clause is   *)
(* evaluated in std::size_t arithmetic, i.e. modulo 2^WordBits.            *)
(***************************************************************************)
WAdd(a, b) == (a + b) % (2^WordBits)

WSub(a, b) == (a - b) % (2^WordBits)

\* src/unnamed/part_001: requires(offset <= instance_sz && (offset + value_sz) <= instance_sz)
offset_check_p1(instance_sz, offset, value_sz) ==
    offset <= instance_sz /\ WAdd(offset, value_sz) <= instance_sz

\* src/unnamed/part_002: requires(offset <= (instance_sz - value_sz))
offset_check_p2(instance_sz, offset, value_sz) ==
    offset <= WSub(instance_sz, value_sz)

\* src/unnamed/part_003: requires(offset <= instance_sz && (offset + value_sz) <= instance_sz)
offset_check_p3(instance_sz, offset, value_sz) ==
    offset <= instance_sz /\ WAdd(offset, value_sz) <= instance_sz

OffsetVariants == {"part_001", "part_002", "part_003"}

\* offset_check_v of the concepts header that the build includes
offset_check_v(variant, instance_sz, offset, value_sz) ==
    CASE variant = "part_001" -> offset_check_p1(instance_sz, offset, value_sz)
      [] variant = "part_002" -> offset_check_p2(instance_sz, offset, value_sz)
      [] variant = "part_003" -> offset_check_p3(instance_sz, offset, value_sz)

\* what the specification asks of the checker, in unbounded arithmetic
InBounds(instance_sz, offset, value_sz) ==
    offset <= instance_sz /\ offset + value_sz <= instance_sz

IdleCfg == [part |-> "none"]

IdleCall == [op |-> "none"]

IdleMem == <<>>

IdleStatics == [part |-> "none"]

IdleThreads == [part |-> "none"]

IdleEnv == [part |-> "none"]

InitOffset ==
    /\ cfg = IdleCfg
    /\ call \in [op : {"offset_check"}, variant : OffsetVariants,
                 instance_sz : Word, offset : Word, value_sz : Word]
    /\ mem = IdleMem
    /\ boxes = <<>>
    /\ invokes = 0
    /\ statics = IdleStatics
    /\ threads = IdleThreads
    /\ env = IdleEnv
    /\ last = NoOp

\* instantiate offset_check_v<instance_sz, offset, value_sz>
OffsetCheck ==
    /\ call.op = "offset_check"
    /\ last = NoOp
    /\ last' = [op |-> "offset_check",
                accepted |-> offset_check_v(call.variant, call.instance_sz,
                                            call.offset, call.value_sz)]
    /\ UNCHANGED <<cfg, call, mem, boxes, invokes, statics, threads, env>>

NextOffset == OffsetCheck

SpecOffset == InitOffset /\ [][NextOffset]_vars

\* C3: every definition of offset_check accepts a triple exactly when
\* offset <= instance_size and offset + value_size <= instance_size.
C3_OffsetCheckIffInBounds ==
    last.op = "offset_check" =>
        (last.accepted <=> InBounds(call.instance_sz, call.offset, call.value_sz))

(***************************************************************************)
(* Method invocation bridge: RunMethodRethrow.                             *)
(*                                                                         *)
(* Objects of the foreign runtime that the model hands to the layer:       *)
(*   "null"     the null handle                                            *)
(*   "o_ref"    an object of a reference class                             *)
(*   "o_unity"  a UnityEngine::Object (has m_CachedPtr at offset 0x10)     *)
(*   "o_boxed"  a boxed value type (object_get_class gives a value class)  *)
(*   "self"     the address of a value wrapper's own inline bytes          *)
(***************************************************************************)
\* upper bound on the number of arguments of one call
MaxArgs == 1

Exceptions == {"E1", "E2"}

NullMethod == [id |-> "null", static |-> FALSE]

\* MethodInfo const*: identity and (flags & METHOD_ATTRIBUTE_STATIC) != 0
Methods == {[id |-> "m_inst", static |-> FALSE], [id |-> "m_static", static |-> TRUE]}

\* the receiver's static type T and the handle it holds
Receivers ==
    {[kind |-> "RefWrapper", handle |-> h] : h \in {"null", "o_ref"}}
    \cup {[kind |-> "UnityRef", handle |-> h] : h \in {"null", "o_unity"}}
    \cup {[kind |-> "ObjPtr", handle |-> h] : h \in {"null", "o_ref", "o_boxed"}}
    \cup {[kind |-> "Value", handle |-> "self"]}

\* ::il2cpp_utils::il2cpp_reference_type<T>: wrappers and object pointers
IsReferenceType(kind) == kind \in {"RefWrapper", "UnityRef", "ObjPtr"}

\* std::is_convertible_v<T, UnityEngine::Object*>
IsUnityType(kind) == kind = "UnityRef"

\* an argument's static type (the T deduced for ExtractTypeValue(T&)) and the
\* handle it holds; "Wrapper" is ::bs_hook::Il2CppWrapperType, "ConstWrapper"
\* is ::bs_hook::Il2CppWrapperType const
ArgChoices ==
    {[kind |-> "nullptr", handle |-> "null"],
     [kind |-> "ConstWrapper", handle |-> "null"],
     [kind |-> "ConstWrapper", handle |-> "o_boxed"],
     [kind |-> "RefWrapper", handle |-> "o_ref"],
     [kind |-> "Pointer", handle |-> "o_ref"],
     [kind |-> "Wrapper", handle |-> "null"],
     [kind |-> "Wrapper", handle |-> "o_ref"],
     [kind |-> "Wrapper", handle |-> "o_boxed"],
     [kind |-> "Value", handle |-> "self"]}

ArgLists == UNION {[1 .. n -> ArgChoices] : n \in 0 .. MaxArgs}

\* TOut: void, a value type (need_box), a reference wrapper, a raw pointer
TOuts == {"void", "BoxedValue", "RefWrapper", "Pointer"}

\* payload bytes of the boxed object a value-returning method hands back
Payloads == {"p1", "p2"}

\* what runtime_invoke answers for a method whose return type is tout
InvokeResults(tout) ==
    {[exp |-> e, ret |-> "null", payload |-> "none"] : e \in Exceptions}
    \cup (CASE tout = "void" -> {[exp |-> "none", ret |-> "null", payload |-> "none"]}
            [] tout = "BoxedValue" ->
                 {[exp |-> "none", ret |-> "o_ret_boxed", payload |-> p] : p \in Payloads}
            [] OTHER -> {[exp |-> "none", ret |-> h, payload |-> "none"] :
                           h \in {"null", "o_ref"}})

\* ExtractValue(instance): the receiver's raw value
ExtractValue(recv) ==
    IF recv.kind = "ObjPtr"
    THEN IF recv.handle # "null"
         THEN IF recv.handle = "o_boxed"
              THEN [inst |-> "payload_of_o_boxed",
                    calls |-> <<"Init", "object_get_class", "class_is_valuetype",
                                "object_unbox">>]
              ELSE [inst |-> recv.handle,
                    calls |-> <<"Init", "object_get_class", "class_is_valuetype">>]
         ELSE [inst |-> recv.handle, calls |-> <<>>]
    ELSE [inst |-> recv.handle, calls |-> <<>>]

\* The receiver check guarded by NO_RUNTIME_INSTANCE_METHOD_NULL_CHECKS and
\* ALLOW_INVALID_UNITY_METHOD_CALLS (mutant: the !inst test is missing)
NullCheck_noHandleTest(c, recv, method, inst, dead) ==
    IF c.null_checks /\ IsReferenceType(recv.kind) /\ ~method.static
    THEN IF ~c.allow_invalid_unity /\ IsUnityType(recv.kind)
         THEN [throws |-> dead, calls |-> <<"read_cachedptr">>]
         ELSE [throws |-> FALSE, calls |-> <<>>]
    ELSE [throws |-> FALSE, calls |-> <<>>]

\* (mutant: the METHOD_ATTRIBUTE_STATIC test is missing)
NullCheck_ignoreStatic(c, recv, method, inst, dead) ==
    IF c.null_checks /\ IsReferenceType(recv.kind)
    THEN IF inst = "null"
         THEN [throws |-> TRUE, calls |-> <<>>]
         ELSE IF ~c.allow_invalid_unity /\ IsUnityType(recv.kind)
              THEN [throws |-> dead, calls |-> <<"read_cachedptr">>]
              ELSE [throws |-> FALSE, calls |-> <<>>]
    ELSE [throws |-> FALSE, calls |-> <<>>]

\* (mutant: the m_CachedPtr test is missing)
NullCheck_noCachedPtr(c, recv, method, inst, dead) ==
    IF c.null_checks /\ IsReferenceType(recv.kind) /\ ~method.static
    THEN [throws |-> inst = "null", calls |-> <<>>]
    ELSE [throws |-> FALSE, calls |-> <<>>]

NullCheck(c, recv, method, inst, dead) ==
    IF c.null_checks /\ IsReferenceType(recv.kind) /\ ~method.static
    THEN IF inst = "null"
         THEN [throws |-> TRUE, calls |-> <<>>]
         ELSE IF ~c.allow_invalid_unity /\ IsUnityType(recv.kind)
              THEN [throws |-> dead, calls |-> <<"read_cachedptr">>]
              ELSE [throws |-> FALSE, calls |-> <<>>]
    ELSE [throws |-> FALSE, calls |-> <<>>]

\* ExtractTypeValue(arg): the pointer runtime_invoke gets for one argument.
\* The explicit specialisations are those of T = std::nullptr_t and of
\* T = ::bs_hook::Il2CppWrapperType; for T = Il2CppWrapperType const the
\* il2cpp_convertible overload is viable (!std::is_same_v<T, Il2CppWrapperType>
\* holds) and is the more constrained one
ExtractTypeValue(arg) ==
    CASE arg.kind = "nullptr" -> [ptr |-> "null", calls |-> <<>>]
      [] arg.kind = "ConstWrapper" -> [ptr |-> arg.handle, calls |-> <<>>]
      [] arg.kind = "Wrapper" ->
           IF arg.handle # "null"
           THEN IF arg.handle = "o_boxed"
                THEN [ptr |-> "payload_of_o_boxed",
                      calls |-> <<"Init", "object_get_class", "class_is_valuetype",
                                  "object_unbox">>]
                ELSE [ptr |-> arg.handle,
                      calls |-> <<"Init", "object_get_class", "class_is_valuetype">>]
           ELSE [ptr |-> "null", calls |-> <<>>]
      [] arg.kind \in {"RefWrapper", "Pointer"} -> [ptr |-> arg.handle, calls |-> <<>>]
      [] OTHER -> [ptr |-> "address_of_arg", calls |-> <<>>]

RECURSIVE MarshalCalls(_)
\* runtime calls made while filling invokeParams, in argument order
MarshalCalls(args) ==
    IF args = <<>> THEN <<>>
    ELSE ExtractTypeValue(Head(args)).calls \o MarshalCalls(Tail(args))

\* std::array<void*, N> invokeParams{ExtractTypeValue(params)...}
InvokeParams(args) == [i \in 1 .. Len(args) |-> ExtractTypeValue(args[i]).ptr]

\* if constexpr (checkTypes && sizeof...(TArgs) > 0): ExtractType of each
\* argument and of TOut; the results are not compared with anything
TypeCheckCalls(checkTypes, args) ==
    IF checkTypes /\ Len(args) > 0
    THEN [i \in 1 .. Len(args) + 1 |-> "ExtractType"]
    ELSE <<>>

\* what follows a reported exception (mutant: the exception is dropped and
\* the return value is handled as on success)
AfterInvoke_swallow(method, tout, res) ==
    CASE tout = "void" -> [outcome |-> [kind |-> "returned", value |-> "void"],
                           calls |-> <<>>]
      [] tout = "BoxedValue" ->
           [outcome |-> [kind |-> "returned", value |-> res.payload],
            calls |-> <<"object_unbox", "GC_free">>]
      [] OTHER -> [outcome |-> [kind |-> "returned", value |-> res.ret],
                   calls |-> <<>>]

\* (mutant: the box is released before it is unboxed)
AfterInvoke_freeFirst(method, tout, res) ==
    IF res.exp # "none"
    THEN [outcome |-> [kind |-> "RunMethodException", exp |-> res.exp,
                       method |-> method.id],
          calls |-> <<>>]
    ELSE CASE tout = "void" -> [outcome |-> [kind |-> "returned", value |-> "void"],
                                calls |-> <<>>]
           [] tout = "BoxedValue" ->
                [outcome |-> [kind |-> "returned", value |-> "released"],
                 calls |-> <<"GC_free", "object_unbox">>]
           [] OTHER -> [outcome |-> [kind |-> "returned", value |-> res.ret],
                        calls |-> <<>>]

\* from `if (exp) throw` to the end of RunMethodRethrow: a value type comes
\* back boxed, Unbox<TOut>(ret) copies the payload out, then il2cpp_GC_free(ret)
AfterInvoke(method, tout, res) ==
    IF res.exp # "none"
    THEN [outcome |-> [kind |-> "RunMethodException", exp |-> res.exp,
                       method |-> method.id],
          calls |-> <<>>]
    ELSE CASE tout = "void" -> [outcome |-> [kind |-> "returned", value |-> "void"],
                                calls |-> <<>>]
           [] tout = "BoxedValue" ->
                [outcome |-> [kind |-> "returned", value |-> res.payload],
                 calls |-> <<"object_unbox", "GC_free">>]
           [] OTHER -> [outcome |-> [kind |-> "returned", value |-> res.ret],
                        calls |-> <<>>]

\* (mutant: with checkTypes the call is refused instead of made)
InvokeTail_typeChecked(inst, method, args, tout, checkTypes, res) ==
    IF checkTypes /\ Len(args) > 0
    THEN [outcome |-> [kind |-> "TypeMismatch"],
          calls |-> TypeCheckCalls(checkTypes, args),
          invoked |-> "none", reported |-> "not_called"]
    ELSE LET after == AfterInvoke(method, tout, res)
         IN  [outcome |-> after.outcome,
              calls |-> MarshalCalls(args) \o <<"Init", "runtime_invoke">>
                        \o after.calls,
              invoked |-> [method |-> method.id, inst |-> inst,
                           params |-> InvokeParams(args)],
              reported |-> res.exp]

\* type check, marshaling, Init, runtime_invoke and the handling of its result
InvokeTail(inst, method, args, tout, checkTypes, res) ==
    LET after == AfterInvoke(method, tout, res)
    IN  [outcome |-> after.outcome,
         calls |-> TypeCheckCalls(checkTypes, args) \o MarshalCalls(args)
                   \o <<"Init", "runtime_invoke">> \o after.calls,
         invoked |-> [method |-> method.id, inst |-> inst,
                      params |-> InvokeParams(args)],
         reported |-> res.exp]

NotInvoked(kind, calls) ==
    [outcome |-> [kind |-> kind], calls |-> calls,
     invoked |-> "none", reported |-> "not_called"]

\* (mutant: CRASH_UNLESS(method) comes after the receiver check)
RunMethodRethrow_internals_lateCrash(c, recv, method, args, tout, checkTypes, res, dead) ==
    LET ev == ExtractValue(recv)
        nc == NullCheck(c, recv, method, ev.inst, dead)
    IN  IF nc.throws
        THEN NotInvoked("NullException", ev.calls \o nc.calls)
        ELSE IF method = NullMethod THEN NotInvoked("crash", ev.calls \o nc.calls)
        ELSE LET t == InvokeTail(ev.inst, method, args, tout, checkTypes, res)
             IN  [t EXCEPT !.calls = ev.calls \o nc.calls \o t.calls]

\* cordl_internals.hpp: RunMethodRethrow with its own invoke
RunMethodRethrow_internals(c, recv, method, args, tout, checkTypes, res, dead) ==
    IF method = NullMethod THEN NotInvoked("crash", <<>>)
    ELSE LET ev == ExtractValue(recv)
             nc == NullCheck(c, recv, method, ev.inst, dead)
         IN  IF nc.throws
             THEN NotInvoked("NullException", ev.calls \o nc.calls)
             ELSE LET t == InvokeTail(ev.inst, method, args, tout, checkTypes, res)
                  IN  [t EXCEPT !.calls = ev.calls \o nc.calls \o t.calls]

\* method-utils.hpp: the receiver check, then ::il2cpp_utils::RunMethodRethrow,
\* which extracts the receiver again and invokes
RunMethodRethrow_method_utils(c, recv, method, args, tout, checkTypes, res, dead) ==
    IF method = NullMethod THEN NotInvoked("crash", <<>>)
    ELSE LET checked == c.null_checks /\ IsReferenceType(recv.kind)
             ev == ExtractValue(recv)
             nc == NullCheck(c, recv, method, ev.inst, dead)
             pre == IF checked THEN ev.calls \o nc.calls ELSE <<>>
         IN  IF nc.throws
             THEN NotInvoked("NullException", pre)
             ELSE LET t == InvokeTail(ev.inst, method, args, tout, checkTypes, res)
                  IN  [t EXCEPT !.calls = pre \o ev.calls \o t.calls]

InvokeRevs == {"cordl_internals", "method_utils"}

\* every call of RunMethodRethrow<TOut, checkTypes>(instance, method, params...)
\* together with the answer runtime_invoke gives if it is reached
InvokeCalls ==
    UNION {[op : {"RunMethodRethrow"}, recv : Receivers,
            method : Methods \cup {NullMethod}, args : ArgLists, tout : {t},
            checkTypes : BOOLEAN, res : InvokeResults(t)] : t \in TOuts}

InitInvoke ==
    /\ cfg \in [part : {"invoke"}, rev : InvokeRevs, null_checks : BOOLEAN,
                allow_invalid_unity : BOOLEAN]
    /\ call \in InvokeCalls
    /\ mem = IdleMem
    /\ boxes = <<>>
    /\ invokes = 0
    /\ statics = IdleStatics
    /\ threads = IdleThreads
    /\ env = [part |-> "invoke", dead |-> FALSE]
    /\ last = NoOp

CountOf(calls, name) == Cardinality({i \in 1 .. Len(calls) : calls[i] = name})

\* the call of RunMethodRethrow runs to its end
RunMethodRethrow ==
    /\ call.op = "RunMethodRethrow"
    /\ last = NoOp
    /\ LET r == IF cfg.rev = "cordl_internals"
                THEN RunMethodRethrow_internals(cfg, call.recv, call.method,
                         call.args, call.tout, call.checkTypes, call.res, env.dead)
                ELSE RunMethodRethrow_method_utils(cfg, call.recv, call.method,
                         call.args, call.tout, call.checkTypes, call.res, env.dead)
       IN  /\ invokes' = invokes + CountOf(r.calls, "runtime_invoke")
           /\ last' = [op |-> "RunMethodRethrow", outcome |-> r.outcome,
                       calls |-> r.calls, invoked |-> r.invoked,
                       reported |-> r.reported, invokes_before |-> invokes]
    /\ UNCHANGED <<cfg, call, mem, boxes, statics, threads, env>>

\* the native side of the Unity object is destroyed: m_CachedPtr becomes null
DestroyNative ==
    /\ cfg.part = "invoke"
    /\ call.recv.handle = "o_unity"
    /\ last = NoOp
    /\ ~env.dead
    /\ env' = [env EXCEPT !.dead = TRUE]
    /\ UNCHANGED <<cfg, call, mem, boxes, invokes, statics, threads, last>>

NextInvoke == RunMethodRethrow \/ DestroyNative

SpecInvoke == InitInvoke /\ [][NextInvoke]_vars

RuntimeEntryPoints ==
    {"Init", "object_get_class", "class_is_valuetype", "object_unbox",
     "runtime_invoke", "GC_free"}

IsInvoke == last.op = "RunMethodRethrow"

\* the case C1 speaks of: an instance method on a null Reference receiver
NullReceiverCase ==
    /\ IsInvoke
    /\ call.method # NullMethod
    /\ ~call.method.static
    /\ IsReferenceType(call.recv.kind)
    /\ call.recv.handle = "null"

\* C1: an instance method called on a null Reference receiver throws
\* NullException without any foreign-runtime call (the runtime_invoke count
\* is unchanged) when the null checks are compiled in, and reaches
\* runtime_invoke instead of throwing NullException when they are not.
C1_NullReceiver ==
    NullReceiverCase =>
        IF cfg.null_checks
        THEN /\ last.outcome.kind = "NullException"
             /\ \A i \in 1 .. Len(last.calls) : last.calls[i] \notin RuntimeEntryPoints
             /\ invokes = last.invokes_before
        ELSE /\ last.outcome.kind # "NullException"
             /\ CountOf(last.calls, "runtime_invoke") = 1
             /\ invokes = last.invokes_before + 1

C1_Witness ==
    /\ NullReceiverCase
    /\ cfg.null_checks
    /\ last.outcome.kind = "NullException"
    /\ Len(call.args) > 0

\* C2: when runtime_invoke reports an exception, RunMethodRethrow throws a
\* RunMethodException with that exception and the MethodInfo passed in; it
\* returns no value, calls nothing of the runtime after the invoke (no
\* unbox, no free) and calls runtime_invoke exactly once.
C2_ExceptionRethrown ==
    (IsInvoke /\ last.reported \in Exceptions) =>
        /\ last.outcome = [kind |-> "RunMethodException", exp |-> last.reported,
                           method |-> call.method.id]
        /\ last.reported = call.res.exp
        /\ CountOf(last.calls, "runtime_invoke") = 1
        /\ last.calls[Len(last.calls)] = "runtime_invoke"
        /\ invokes = last.invokes_before + 1

C2_Witness ==
    /\ IsInvoke
    /\ last.reported = "E2"
    /\ call.tout = "BoxedValue"
    /\ last.outcome.kind = "RunMethodException"

(***************************************************************************)
(* Instance field accessors: setInstanceField / getInstanceField.          *)
(*                                                                         *)
(* One behaviour looks at one field: cfg holds the build configuration     *)
(* and the template arguments (field type T, offset, instance size) of     *)
(* the accessor pair, mem the bytes of the instance followed by the bytes  *)
(* that lie behind it in memory.                                           *)
(***************************************************************************)
\* largest instance size
MaxInst == 3

\* largest field offset
MaxOffset == 1

\* sizeof(void*), in bytes of the model
PtrSize == 2

\* il2cpp_instance_sizeof(T) == sizeof(T) == sizeof(v.__instance) of the value type
ValueSize == 2

\* sizeof(T) of the trivial type
TrivialSize == 1

Bytes == {0, 1}

FieldKinds == {"Ref", "Value", "Trivial"}

SizeOf(kind) ==
    CASE kind = "Ref" -> PtrSize
      [] kind = "Value" -> ValueSize
      [] OTHER -> TrivialSize

\* the bit patterns a T can hold (a null reference is all zeros)
FieldValues(kind) == [1 .. SizeOf(kind) -> Bytes]

\* the three revisions of field-utils.hpp
FieldRevs == {"field_utils_1", "field_utils_2", "field_utils_3"}

ArenaSize == MaxOffset + PtrSize

\* the first two revisions carry OFFSET_CHECK, the third takes a void*
HasOffsetCheck(c) == c.rev # "field_utils_3"

\* NULL_CHECK / FIELD_NULL_CHECK: only in the heap accessors of the first two
HasNullCheck(c) == c.rev # "field_utils_3" /\ c.container = "heap"

FieldCfgs ==
    {c \in [part : {"field"}, rev : FieldRevs, container : {"heap", "array"},
            offset_checks : BOOLEAN, variant : OffsetVariants,
            null_checks : BOOLEAN, kind : FieldKinds,
            offset : 0 .. MaxOffset, instance_sz : 0 .. MaxInst,
            unity : {FALSE}] :
        /\ (~(c.offset_checks /\ HasOffsetCheck(c)) => c.variant = "part_003")
        /\ (~HasNullCheck(c) => ~c.null_checks)}

\* a std::array& is never null, a heap pointer may be; "dead" is a
\* UnityEngine::Object whose native side was destroyed (m_CachedPtr == nullptr)
Instances(c) ==
    IF c.container = "heap"
    THEN {"null", "obj"} \cup (IF c.unity THEN {"dead"} ELSE {})
    ELSE {"obj"}

\* *static_cast<void**>(getAtOffset<0x10>(instance))
read_cachedptr(inst) == IF inst = "dead" THEN "null" ELSE "native"

\* check_null(instance): the overload is chosen by
\* std::is_convertible_v<T, UnityEngine::Object*>
\* (mutant: the handle is not tested)
check_null_cachedOnly(c, inst) ==
    IF c.unity THEN read_cachedptr(inst) # "null" ELSE TRUE

check_null(c, inst) ==
    IF c.unity
    THEN inst # "null" /\ read_cachedptr(inst) # "null"
    ELSE inst # "null"

\* whether the null check of the accessor reads m_CachedPtr: only check_null
\* of the first revision does, and only behind the && on the handle
ReadsCachedPtr(c, inst) ==
    /\ c.rev = "field_utils_1" /\ c.container = "heap"
    /\ c.null_checks /\ c.unity
    /\ inst # "null"

\* OFFSET_CHECK(instance_size, offset, value_size, message)
OFFSET_CHECK(c) ==
    IF c.offset_checks
    THEN IF offset_check_v(c.variant, c.instance_sz, c.offset, SizeOf(c.kind))
         THEN "passed" ELSE "rejected"
    ELSE "none"

\* NULL_CHECK(instance) of the first revision, FIELD_NULL_CHECK(instance) of
\* the second (if (!inst) throw): TRUE when it throws
\* (mutant: the build flag is ignored)
NULL_CHECK_always(c, inst) ==
    IF c.rev = "field_utils_1" THEN ~check_null(c, inst) ELSE inst = "null"

NULL_CHECK(c, inst) ==
    /\ c.null_checks
    /\ IF c.rev = "field_utils_1" THEN ~check_null(c, inst) ELSE inst = "null"

\* std::memcpy / std::copy_n of Len(v) bytes to the address instance + offset
\* (mutant: the last byte is not copied)
memcpy_short(m, offset, v) ==
    [i \in 1 .. Len(m) |->
        IF i > offset /\ i < offset + Len(v) THEN v[i - offset] ELSE m[i]]

\* (mutant: one byte too many is copied)
memcpy_long(m, offset, v) ==
    [i \in 1 .. Len(m) |->
        IF i > offset /\ i <= offset + Len(v) THEN v[i - offset]
        ELSE IF i = offset + Len(v) + 1 THEN v[Len(v)] ELSE m[i]]

memcpy(m, offset, v) ==
    [i \in 1 .. Len(m) |->
        IF i > offset /\ i <= offset + Len(v) THEN v[i - offset] ELSE m[i]]

RECURSIVE copyByByte(_, _, _, _, _)
\* for (auto i = 0; i < sz; i++) dst[i] = src[i], with dst = m + offset
copyByByte(sz, src, m, offset, i) ==
    IF i < sz
    THEN copyByByte(sz, src, [m EXCEPT ![offset + i + 1] = src[i + 1]], offset, i + 1)
    ELSE m

\* the sizeof(T) bytes at instance + offset
ReadField(m, offset, n) == [i \in 1 .. n |-> m[offset + i]]

\* the access stays inside the object
InsideObject(c) == c.offset + SizeOf(c.kind) <= c.instance_sz

\* runtime calls of a setter that reaches the store
SetterCalls(c) ==
    IF c.kind = "Ref" /\ (c.container = "heap" \/ c.rev = "field_utils_3")
    THEN <<"Init", "gc_wbarrier_set_field">>
    ELSE <<>>

\* the bytes of the instance after the store
Store(c, m, v) ==
    IF c.rev = "field_utils_3" /\ c.kind = "Value"
    THEN copyByByte(Len(v), v, m, c.offset, 0)
    ELSE memcpy(m, c.offset, v)

\* every way setInstanceField<T, offset>(instance, v) can end; a store through
\* a null pointer or past the end of the object is undefined behaviour
setInstanceField(c, m, inst, v) ==
    IF HasOffsetCheck(c) /\ OFFSET_CHECK(c) = "rejected"
    THEN {[outcome |-> "rejected", mem |-> m, calls |-> <<>>, accessed |-> FALSE]}
    ELSE IF HasNullCheck(c) /\ NULL_CHECK(c, inst)
    THEN {[outcome |-> "NullException", mem |-> m, calls |-> <<>>, accessed |-> FALSE]}
    ELSE IF inst = "null" \/ ~InsideObject(c)
    THEN {[outcome |-> "fault", mem |-> m, calls |-> SetterCalls(c), accessed |-> TRUE],
          [outcome |-> "done", mem |-> IF inst = "null" THEN m ELSE Store(c, m, v),
           calls |-> SetterCalls(c), accessed |-> TRUE]}
    ELSE {[outcome |-> "done", mem |-> Store(c, m, v), calls |-> SetterCalls(c),
           accessed |-> TRUE]}

\* the getters of the first two revisions return T& / T const& into the
\* instance (the reference getters of the first return T), the third a fresh T
GetterAliases(c) ==
    CASE c.rev = "field_utils_1" -> c.kind # "Ref"
      [] c.rev = "field_utils_2" -> TRUE
      [] OTHER -> FALSE

\* every way getInstanceField<T, offset>(instance) can end
getInstanceField(c, m, inst) ==
    IF HasOffsetCheck(c) /\ OFFSET_CHECK(c) = "rejected"
    THEN {[outcome |-> "rejected", result |-> <<>>, accessed |-> FALSE]}
    ELSE IF HasNullCheck(c) /\ NULL_CHECK(c, inst)
    THEN {[outcome |-> "NullException", result |-> <<>>, accessed |-> FALSE]}
    ELSE IF inst = "null"
    THEN {[outcome |-> "fault", result |-> <<>>, accessed |-> TRUE]}
         \cup {[outcome |-> "done", result |-> v, accessed |-> TRUE] :
                  v \in FieldValues(c.kind)}
    ELSE IF ~InsideObject(c)
    THEN {[outcome |-> "fault", result |-> <<>>, accessed |-> TRUE],
          [outcome |-> "done", result |-> ReadField(m, c.offset, SizeOf(c.kind)),
           accessed |-> TRUE]}
    ELSE {[outcome |-> "done", result |-> ReadField(m, c.offset, SizeOf(c.kind)),
           accessed |-> TRUE]}

\* what the next operation remembers of the one before it
Brief(l) ==
    IF l.op \in {"set", "get"}
    THEN [op |-> l.op, inst |-> l.inst, value |-> l.value, outcome |-> l.outcome]
    ELSE [op |-> "none"]

InitField ==
    /\ cfg \in FieldCfgs
    /\ call = IdleCall
    /\ mem = [i \in 1 .. ArenaSize |-> 0]
    /\ boxes = <<>>
    /\ invokes = 0
    /\ statics = IdleStatics
    /\ threads = IdleThreads
    /\ env = IdleEnv
    /\ last = NoOp

SetInstanceField ==
    /\ cfg.part = "field"
    /\ \E inst \in Instances(cfg), v \in FieldValues(cfg.kind) :
         \E r \in setInstanceField(cfg, mem, inst, v) :
            /\ mem' = r.mem
            /\ last' = [op |-> "set", inst |-> inst, value |-> v,
                        outcome |-> r.outcome, calls |-> r.calls,
                        accessed |-> r.accessed, check |-> OFFSET_CHECK(cfg),
                        cached_read |-> ReadsCachedPtr(cfg, inst),
                        alias |-> FALSE, prev |-> Brief(last)]
    /\ UNCHANGED <<cfg, call, boxes, invokes, statics, threads, env>>

GetInstanceField ==
    /\ cfg.part = "field"
    /\ \E inst \in Instances(cfg) :
         \E r \in getInstanceField(cfg, mem, inst) :
            /\ last' = [op |-> "get", inst |-> inst, value |-> r.result,
                        outcome |-> r.outcome, calls |-> <<>>,
                        accessed |-> r.accessed, check |-> OFFSET_CHECK(cfg),
                        cached_read |-> ReadsCachedPtr(cfg, inst),
                        alias |-> GetterAliases(cfg),
                        prev |-> Brief(last)]
    /\ UNCHANGED <<cfg, call, mem, boxes, invokes, statics, threads, env>>

NextField == SetInstanceField \/ GetInstanceField

SpecField == InitField /\ [][NextField]_vars

IsFieldOp == last.op \in {"set", "get"}

\* C4: an accessor whose field does not fit (offset + field size > instance
\* size) is rejected at build time and performs no access when
\* COMPILE_TIME_OFFSET_CHECKS is defined; when it is not defined, OFFSET_CHECK
\* expands to nothing and the access is performed.
C4_OffsetCheckGatesAccess ==
    (IsFieldOp /\ HasOffsetCheck(cfg)
       /\ ~InBounds(cfg.instance_sz, cfg.offset, SizeOf(cfg.kind))) =>
        IF cfg.offset_checks
        THEN last.outcome = "rejected" /\ ~last.accessed
        ELSE last.check = "none" /\ last.outcome # "rejected"
             /\ (last.outcome # "NullException" => last.accessed)

\* C5: for a Value field inside the bounds of the instance, a set followed
\* immediately by a get on the same instance returns exactly the bytes that
\* were set, on heap instances and on inline buffers, in every revision.
C5_SetThenGet ==
    (/\ IsFieldOp
     /\ cfg.kind = "Value"
     /\ InBounds(cfg.instance_sz, cfg.offset, SizeOf(cfg.kind))
     /\ last.op = "get" /\ last.outcome = "done" /\ last.inst = "obj"
     /\ last.prev.op = "set" /\ last.prev.outcome = "done"
     /\ last.prev.inst = "obj") =>
        last.value = last.prev.value

C5_Witness ==
    /\ IsFieldOp
    /\ cfg.kind = "Value" /\ cfg.rev = "field_utils_3" /\ cfg.offset > 0
    /\ InBounds(cfg.instance_sz, cfg.offset, SizeOf(cfg.kind))
    /\ last.op = "get" /\ last.outcome = "done" /\ last.inst = "obj"
    /\ last.prev.op = "set" /\ last.prev.outcome = "done"
    /\ last.prev.inst = "obj"
    /\ last.value = <<0, 1>>

(***************************************************************************)
(* Boxing bridge: Box / Unbox.                                             *)
(*                                                                         *)
(* boxes is the runtime's heap of boxed values: value_box appends an       *)
(* object, whose handle is its index.  "o_ref" is an object of a reference *)
(* class.  src is a ghost: the bytes of the wrapper Box was given.         *)
(***************************************************************************)
\* upper bound on the boxed objects of one behaviour
MaxBoxes == 2

\* the two revisions of box-utils.hpp
BoxRevs == {"box_utils_1", "box_utils_2"}

\* object handles: null, the reference object, the i-th boxed value, and the
\* words that are no handle of the model
Handle(h, i) == [h |-> h, i |-> i]

NullH == Handle("null", 0)

RefH == Handle("o_ref", 0)

BoxHandles(bs) == {Handle("box", i) : i \in 1 .. Len(bs)}

\* the argument of Box: its static type and what it holds
BoxArgs(rev, bs) ==
    {[kind |-> k, bytes |-> b, handle |-> Handle("none", 0)] :
        k \in {"Value", "ValuePtr"}, b \in FieldValues("Value")}
    \cup {[kind |-> "RefWrapper", bytes |-> <<>>, handle |-> h] :
            h \in {NullH, RefH}}
    \cup {[kind |-> IF rev = "box_utils_1" THEN "Il2CppWrapperType" ELSE "Il2CppObject*",
           bytes |-> <<>>, handle |-> h] :
            h \in {NullH, RefH} \cup BoxHandles(bs)}

\* which definition of Box a call selects
BoxOverload(rev, kind) ==
    CASE kind \in {"Il2CppWrapperType", "Il2CppObject*"} -> "identity"
      [] kind \in {"Value", "ValuePtr"} -> "value_box"
      [] rev = "box_utils_1" -> "undefined"
      [] OTHER -> "value_box"

\* il2cpp_functions::value_box(klass, data) on a value class: a new object
\* holding the class's instance size of bytes read from data
value_box(bs, klass, data) ==
    Append(bs, [klass |-> klass, payload |-> ReadField(data, 0, ValueSize),
                src |-> data])

\* every way Box(t) can end
Box_(rev, bs, arg) ==
    CASE BoxOverload(rev, arg.kind) = "identity" ->
           {[outcome |-> "done", result |-> arg.handle, boxes |-> bs, calls |-> <<>>]}
      [] BoxOverload(rev, arg.kind) = "undefined" ->
           {[outcome |-> "rejected", result |-> Handle("none", 0), boxes |-> bs,
             calls |-> <<>>]}
      [] arg.kind \in {"Value", "ValuePtr"} ->
           {[outcome |-> "done", result |-> Handle("box", Len(bs) + 1),
             boxes |-> value_box(bs, "V", arg.bytes),
             calls |-> <<[fn |-> "value_box", klass |-> "V", data |-> arg.bytes]>>]}
      [] OTHER ->
           \* value_box(classof(T), t.convert()) on a reference class gives back
           \* *(Il2CppObject**)data, the first word of the object
           LET c == <<[fn |-> "value_box", klass |-> "R", data |-> arg.handle]>>
           IN  IF arg.handle = NullH
               THEN {[outcome |-> "fault", result |-> Handle("none", 0), boxes |-> bs,
                      calls |-> c],
                     [outcome |-> "done", result |-> Handle("garbage", 0), boxes |-> bs,
                      calls |-> c]}
               ELSE {[outcome |-> "done", result |-> Handle("first_word_of_o_ref", 0),
                      boxes |-> bs, calls |-> c]}

\* the static type T of Unbox<T> and the handle it is given
UnboxArgs(bs) ==
    {[kind |-> k, handle |-> h] : k \in {"Value", "Trivial"},
                                   h \in {NullH} \cup BoxHandles(bs)}
    \cup {[kind |-> k, handle |-> h] : k \in {"RefWrapper", "RefPointer"},
                                        h \in {NullH, RefH} \cup BoxHandles(bs)}

\* the number of bytes Unbox<T> copies (mutant: one byte short)
UnboxSize_short(kind) == IF kind = "Value" THEN ValueSize - 1 ELSE TrivialSize

UnboxSize(kind) == IF kind = "Value" THEN ValueSize ELSE TrivialSize

\* every way Unbox<T>(t) can end
Unbox(rev, bs, arg) ==
    IF arg.kind \in {"RefWrapper", "RefPointer"}
    THEN {[outcome |-> "done", result |-> arg.handle, calls |-> <<>>]}
    ELSE LET c == <<[fn |-> "object_unbox", handle |-> arg.handle],
                    [fn |-> "copy", n |-> UnboxSize(arg.kind)]>>
         IN  IF arg.handle = NullH
             THEN {[outcome |-> "fault", result |-> <<>>, calls |-> c]}
                  \cup {[outcome |-> "done", result |-> v, calls |-> c] :
                           v \in FieldValues(arg.kind)}
             ELSE {[outcome |-> "done",
                    result |-> ReadField(bs[arg.handle.i].payload, 0, UnboxSize(arg.kind)),
                    calls |-> c]}

InitBox ==
    /\ cfg \in [part : {"box"}, rev : BoxRevs]
    /\ call = IdleCall
    /\ mem = IdleMem
    /\ boxes = <<>>
    /\ invokes = 0
    /\ statics = IdleStatics
    /\ threads = IdleThreads
    /\ env = IdleEnv
    /\ last = NoOp

Box ==
    /\ cfg.part = "box"
    /\ \E arg \in BoxArgs(cfg.rev, boxes) :
         /\ BoxOverload(cfg.rev, arg.kind) = "value_box" => Len(boxes) < MaxBoxes
         /\ \E r \in Box_(cfg.rev, boxes, arg) :
              /\ boxes' = r.boxes
              /\ last' = [op |-> "Box", arg |-> arg, outcome |-> r.outcome,
                          result |-> r.result, calls |-> r.calls]
    /\ UNCHANGED <<cfg, call, mem, invokes, statics, threads, env>>

UnboxOp ==
    /\ cfg.part = "box"
    /\ \E arg \in UnboxArgs(boxes) :
         \E r \in Unbox(cfg.rev, boxes, arg) :
            last' = [op |-> "Unbox", arg |-> arg, outcome |-> r.outcome,
                     result |-> r.result, calls |-> r.calls]
    /\ UNCHANGED <<cfg, call, mem, boxes, invokes, statics, threads, env>>

NextBox == Box \/ UnboxOp

SpecBox == InitBox /\ [][NextBox]_vars

\* C6: for a Value-classified T, Box hands value_box exactly classof(T) and
\* the bytes of T; Unbox<T> of the handle copies exactly T's size from
\* object_unbox(handle), and the result has the bytes that were boxed.
C6_BoxUnboxRoundTrip ==
    /\ (last.op = "Box" /\ last.arg.kind \in {"Value", "ValuePtr"}) =>
          /\ last.calls = <<[fn |-> "value_box", klass |-> "V", data |-> last.arg.bytes]>>
          /\ last.result = Handle("box", Len(boxes))
          /\ boxes[last.result.i].src = last.arg.bytes
    /\ (last.op = "Unbox" /\ last.arg.kind = "Value" /\ last.arg.handle.h = "box") =>
          /\ last.outcome = "done"
          /\ last.calls = <<[fn |-> "object_unbox", handle |-> last.arg.handle],
                            [fn |-> "copy", n |-> ValueSize]>>
          /\ last.result = boxes[last.arg.handle.i].src

C6_Witness ==
    /\ last.op = "Unbox" /\ last.arg.kind = "Value" /\ last.arg.handle = Handle("box", 2)
    /\ last.result = <<1, 0>>
    /\ boxes[1].src # boxes[2].src

\* C7: Box of a Reference-classified value or of an already-boxed handle
\* returns the handle it was given and does not call value_box.
C7_BoxReferenceIsIdentity ==
    (last.op = "Box" /\ last.arg.kind \notin {"Value", "ValuePtr"}
       /\ last.outcome # "rejected") =>
        /\ last.outcome = "done"
        /\ last.result = last.arg.handle
        /\ last.calls = <<>>

(***************************************************************************)
(* Static field accessors: FindField, getStaticField, setStaticField.      *)
(*                                                                         *)
(* One (name, klass_resolver) key in one translation unit.  Every          *)
(* function-local static is a guard and a value; two threads run the       *)
(* accessors step by step.  The runtime may answer a lookup with either    *)
(* handle of FieldHandles: the layer is not assumed to be told the same    *)
(* thing twice.                                                            *)
(***************************************************************************)
\* upper bound on the accessor calls of one thread
MaxOps == 2

Threads == {"t1", "t2"}

FieldHandles == {"f1", "f2"}

\* the instantiations of getStaticField / setStaticField for the key
Accessors == {"get_ref", "set_ref", "get_value", "set_trivial"}

\* _config.hpp resolves on every call, field-utils.hpp caches in statics
StaticRevs == {"config", "field_utils"}

\* a function-local static before its initialisation: zero-initialised
Unset == [state |-> "uninit", value |-> "unset"]

\* the initialisation has begun and has not completed
Initializing == [state |-> "initializing", value |-> "unset"]

\* the initialisation completed with v (mutant: the guard is not set, so the
\* initialiser runs again on the next pass)
Completed_forget(v) == [state |-> "uninit", value |-> v]

\* (mutant: a null result is not kept, the initialiser runs again)
Completed_retryNull(v) ==
    IF v = "null" THEN [state |-> "uninit", value |-> "unset"]
    ELSE [state |-> "done", value |-> v]

Completed(v) == [state |-> "done", value |-> v]

\* the guard of a static says the value may be read (mutant: a thread does
\* not wait for an initialisation in progress)
StaticReady_noWait(g) == g.state # "uninit"

StaticReady(g) == g.state = "done"

\* if (!klass) (mutant: the test is missing)
KlassIsNull_never(k) == FALSE

KlassIsNull(k) == k = "null"

\* klass_resolver(): null until the runtime knows the class
klass_resolver(e) == IF e.klass_ready THEN "K" ELSE "null"

\* ::il2cpp_utils::FindField(klass, name): every answer the runtime can give
FindFieldLookup(c, k) ==
    IF k # "null" /\ c.field_exists THEN FieldHandles ELSE {"null"}

\* the runtime entry point an accessor ends in
AccessCall(acc) ==
    IF acc \in {"get_ref", "get_value"}
    THEN "field_static_get_value" ELSE "field_static_set_value"

IdleThread ==
    [pc |-> "idle", acc |-> "none", calls |-> <<>>, after |-> FALSE,
     waited |-> FALSE, klass |-> "unseen", field |-> "unseen", ops |-> 0]

InitStatic ==
    /\ cfg \in [part : {"static"}, rev : StaticRevs, field_exists : BOOLEAN]
    /\ call = IdleCall
    /\ mem = IdleMem
    /\ boxes = <<>>
    /\ invokes = 0
    /\ statics = [part |-> "static", klass |-> Unset, field |-> Unset,
                  acc |-> [a \in Accessors |-> Unset], used |-> {},
                  resolved |-> FALSE]
    /\ threads = [t \in Threads |-> IdleThread]
    /\ env \in [part : {"static"}, klass_ready : BOOLEAN]
    /\ last = NoOp

\* the finished call as the claims look at it
Finished(t, th, outcome, handle) ==
    [op |-> "static", thread |-> t, acc |-> th.acc, outcome |-> outcome,
     handle |-> handle, calls |-> th.calls, after |-> th.after,
     waited |-> th.waited, klass |-> th.klass, field |-> th.field]

\* the thread is back at its caller
Returned(th) == [IdleThread EXCEPT !.ops = th.ops + 1]

\* a thread calls getStaticField / setStaticField for the key
CallAccessor ==
    /\ cfg.part = "static"
    /\ \E t \in Threads, a \in Accessors :
         /\ threads[t].pc = "idle"
         /\ threads[t].ops < MaxOps
         /\ threads' = [threads EXCEPT ![t] =
                [@ EXCEPT !.pc = IF cfg.rev = "config" THEN "resolve"
                                 ELSE "accessor_static",
                          !.acc = a, !.after = statics.resolved]]
    /\ UNCHANGED <<cfg, call, mem, boxes, invokes, statics, env, last>>

\* `static auto* field = FindField<name, klass_resolver>();` of the accessor:
\* read the static if it is initialised, else begin its initialisation
AccessorStatic ==
    /\ \E t \in Threads :
         /\ threads[t].pc = "accessor_static"
         /\ LET a == threads[t].acc
            IN  \/ /\ StaticReady(statics.acc[a])
                   /\ threads' = [threads EXCEPT ![t].pc = "access"]
                   /\ UNCHANGED statics
                \/ /\ statics.acc[a].state = "uninit"
                   /\ statics' = [statics EXCEPT !.acc[a] = Initializing]
                   /\ threads' = [threads EXCEPT ![t].pc = "klass_static"]
    /\ UNCHANGED <<cfg, call, mem, boxes, invokes, env, last>>

\* FindField from `if (!klass)` on, with th the thread that saw klass k and st
\* the statics: a throw leaves the accessor's static uninitialised
AfterKlass(t, k, st, th) ==
    IF KlassIsNull(k)
    THEN /\ statics' = [st EXCEPT !.acc[th.acc] = Unset]
         /\ last' = Finished(t, [th EXCEPT !.klass = k], "NullException", "none")
         /\ threads' = [threads EXCEPT ![t] = Returned(th)]
    ELSE /\ statics' = st
         /\ last' = last
         /\ threads' = [threads EXCEPT ![t] =
                           [th EXCEPT !.pc = "field_static", !.klass = k]]

\* `static auto* klass = klass_resolver();` in FindField
KlassStatic ==
    /\ \E t \in Threads :
         /\ threads[t].pc = "klass_static"
         /\ \/ /\ StaticReady(statics.klass)
               /\ AfterKlass(t, statics.klass.value, statics, threads[t])
            \/ /\ statics.klass.state = "uninit"
               /\ statics' = [statics EXCEPT !.klass = Initializing]
               /\ threads' = [threads EXCEPT ![t].pc = "klass_init"]
               /\ last' = last
    /\ UNCHANGED <<cfg, call, mem, boxes, invokes, env>>

\* the initialiser of klass runs: klass_resolver() is called
ResolveKlass ==
    /\ \E t \in Threads :
         /\ threads[t].pc = "klass_init"
         /\ LET k == klass_resolver(env)
            IN  AfterKlass(t, k, [statics EXCEPT !.klass = Completed(k)],
                           [threads[t] EXCEPT !.calls = Append(@, "klass_resolver")])
    /\ UNCHANGED <<cfg, call, mem, boxes, invokes, env>>

\* FindField from `if (!field)` on; `return field` completes the accessor's static
AfterField(t, f, st, th) ==
    IF f = "null"
    THEN /\ statics' = [st EXCEPT !.acc[th.acc] = Unset]
         /\ last' = Finished(t, [th EXCEPT !.field = f], "FieldException", "none")
         /\ threads' = [threads EXCEPT ![t] = Returned(th)]
    ELSE /\ statics' = [st EXCEPT !.acc[th.acc] = Completed(f)]
         /\ last' = last
         /\ threads' = [threads EXCEPT ![t] = [th EXCEPT !.pc = "access", !.field = f]]

\* `static auto* field = ::il2cpp_utils::FindField(klass, name);` in FindField
FieldStatic ==
    /\ \E t \in Threads :
         /\ threads[t].pc = "field_static"
         /\ \/ /\ StaticReady(statics.field)
               /\ AfterField(t, statics.field.value, statics, threads[t])
            \/ /\ statics.field.state = "uninit"
               /\ statics' = [statics EXCEPT !.field = Initializing]
               /\ threads' = [threads EXCEPT ![t].pc = "field_init"]
               /\ last' = last
    /\ UNCHANGED <<cfg, call, mem, boxes, invokes, env>>

\* the initialiser of field runs: the runtime's lookup is called
LookupField ==
    /\ \E t \in Threads :
         /\ threads[t].pc = "field_init"
         /\ \E f \in FindFieldLookup(cfg, threads[t].klass) :
              AfterField(t, f,
                         [statics EXCEPT !.field = Completed(f),
                                         !.resolved = @ \/ f \in FieldHandles],
                         [threads[t] EXCEPT !.calls = Append(@, "FindField")])
    /\ UNCHANGED <<cfg, call, mem, boxes, invokes, env>>

\* field_static_get_value / field_static_set_value with the accessor's static
Access ==
    /\ \E t \in Threads :
         /\ threads[t].pc = "access"
         /\ LET h == statics.acc[threads[t].acc].value
                th == [threads[t] EXCEPT !.calls = Append(@, AccessCall(threads[t].acc))]
            IN  /\ statics' = [statics EXCEPT !.used = @ \cup {h}]
                /\ last' = Finished(t, th, "done", h)
                /\ threads' = [threads EXCEPT ![t] = Returned(th)]
    /\ UNCHANGED <<cfg, call, mem, boxes, invokes, env>>

\* the static a thread stands at
GuardAt(t) ==
    CASE threads[t].pc = "accessor_static" -> statics.acc[threads[t].acc]
      [] threads[t].pc = "klass_static" -> statics.klass
      [] threads[t].pc = "field_static" -> statics.field
      [] OTHER -> Unset

\* a thread finds the initialisation of a static in progress and blocks
Wait ==
    /\ cfg.part = "static"
    /\ \E t \in Threads :
         /\ GuardAt(t).state = "initializing"
         /\ ~threads[t].waited
         /\ threads' = [threads EXCEPT ![t].waited = TRUE]
    /\ UNCHANGED <<cfg, call, mem, boxes, invokes, statics, env, last>>

\* _config.hpp: auto klass = klass_resolver(); if (!klass) throw
ConfigResolve ==
    /\ \E t \in Threads :
         /\ threads[t].pc = "resolve"
         /\ LET k == klass_resolver(env)
                th == [threads[t] EXCEPT !.calls = Append(@, "klass_resolver"),
                                         !.klass = k]
            IN  IF KlassIsNull(k)
                THEN /\ last' = Finished(t, th, "NullException", "none")
                     /\ threads' = [threads EXCEPT ![t] = Returned(th)]
                ELSE /\ last' = last
                     /\ threads' = [threads EXCEPT ![t] = [th EXCEPT !.pc = "field_value"]]
    /\ UNCHANGED <<cfg, call, mem, boxes, invokes, statics, env>>

\* _config.hpp: ::il2cpp_utils::SetFieldValue / GetFieldValue(klass, name):
\* the lookup, then the static write or read if the field was found
ConfigFieldValue ==
    /\ \E t \in Threads :
         /\ threads[t].pc = "field_value"
         /\ \E f \in FindFieldLookup(cfg, threads[t].klass) :
              LET th == [threads[t] EXCEPT !.calls = Append(@, "FindField"),
                                           !.field = f]
              IN  IF f = "null"
                  THEN /\ last' = Finished(t, th, "FieldException", "none")
                       /\ threads' = [threads EXCEPT ![t] = Returned(th)]
                       /\ UNCHANGED statics
                  ELSE LET th2 == [th EXCEPT !.calls = Append(@, AccessCall(th.acc))]
                       IN  /\ last' = Finished(t, th2, "done", f)
                           /\ threads' = [threads EXCEPT ![t] = Returned(th2)]
                           /\ statics' = [statics EXCEPT !.used = @ \cup {f},
                                                         !.resolved = TRUE]
    /\ UNCHANGED <<cfg, call, mem, boxes, invokes, env>>

\* the runtime learns the class: klass_resolver() answers non-null from now on
RuntimeReady ==
    /\ cfg.part = "static"
    /\ ~env.klass_ready
    /\ env' = [env EXCEPT !.klass_ready = TRUE]
    /\ UNCHANGED <<cfg, call, mem, boxes, invokes, statics, threads, last>>

NextStatic ==
    \/ CallAccessor \/ AccessorStatic \/ KlassStatic \/ ResolveKlass
    \/ FieldStatic \/ LookupField \/ Access \/ Wait
    \/ ConfigResolve \/ ConfigFieldValue \/ RuntimeReady

SpecStatic == InitStatic /\ [][NextStatic]_vars

IsStatic == last.op = "static"

NoAccessCall(calls) ==
    /\ CountOf(calls, "field_static_get_value") = 0
    /\ CountOf(calls, "field_static_set_value") = 0

\* C8: a static access whose class is null throws NullException without a
\* field lookup; one whose class is there and whose field is not found
\* throws FieldException; neither reads nor writes a static field.
C8_ResolutionErrors ==
    IsStatic =>
        /\ last.klass = "null" =>
              /\ last.outcome = "NullException"
              /\ CountOf(last.calls, "FindField") = 0
              /\ NoAccessCall(last.calls)
        /\ (last.klass = "K" /\ last.field = "null") =>
              /\ last.outcome = "FieldException"
              /\ NoAccessCall(last.calls)
        /\ last.outcome \in {"NullException", "FieldException"} =>
              NoAccessCall(last.calls)

C8_Witness ==
    /\ IsStatic
    /\ cfg.rev = "field_utils"
    /\ last.outcome = "NullException"
    /\ last.calls = <<"klass_resolver">>

C10_ConcurrentFirstAccess ==
    cfg.rev = "field_utils" =>
        /\ statics.used \subseteq FieldHandles
        /\ \A g, h \in statics.used : g = h
        /\ (IsStatic /\ last.outcome = "done") =>
              /\ last.handle \in FieldHandles
              /\ statics.used = {last.handle}

C10_Witness ==
    /\ IsStatic
    /\ cfg.rev = "field_utils"
    /\ last.outcome = "done"
    /\ last.waited
    /\ ~last.after
    /\ \A t \in Threads : threads[t].ops = 1
    /\ Cardinality({t \in Threads : threads[t].pc = "idle"}) = 2

(***************************************************************************)
(* Reference field stores and the collector.                               *)
(*                                                                         *)
(* setInstanceField<reference T, offset>(instance, v) on a heap instance,  *)
(* statement by statement, next to a collector that may look at the slot   *)
(* between any two statements.  mem.slot is the field, mem.registered the  *)
(* handles a write barrier was registered for.                             *)
(***************************************************************************)
\* upper bound on the stores of one behaviour
MaxSets == 2

\* the handles a reference field can hold
RefValues == {"null", "h1", "h2"}

\* il2cpp_functions::gc_wbarrier_set_field(instance, slot, value): the
\* runtime stores and registers in one call (mutant: a plain store)
gc_wbarrier_set_field_plain(m, v) == [m EXCEPT !.slot = v]

gc_wbarrier_set_field(m, v) ==
    [m EXCEPT !.slot = v, !.registered = @ \cup {v}]

\* the statement a reference setter starts with
FirstStatement(c) == IF HasNullCheck(c) THEN "null_check" ELSE "init"

IdleSetter == [pc |-> "idle", inst |-> "none", v |-> "none", calls |-> <<>>, sets |-> 0]

InitBarrier ==
    /\ cfg \in {c \in [part : {"barrier"}, rev : FieldRevs, container : {"heap"},
                       null_checks : BOOLEAN, unity : {FALSE}] :
                   ~HasNullCheck(c) => ~c.null_checks}
    /\ call = IdleCall
    /\ mem = [slot |-> "null", registered |-> {}]
    /\ boxes = <<>>
    /\ invokes = 0
    /\ statics = IdleStatics
    /\ threads = IdleSetter
    /\ env = [part |-> "barrier", scans |-> 0, seen |-> "null", unregistered |-> FALSE]
    /\ last = NoOp

\* the mutator calls the setter
CallSetter ==
    /\ cfg.part = "barrier"
    /\ threads.pc = "idle"
    /\ threads.sets < MaxSets
    /\ \E inst \in {"null", "obj"}, v \in RefValues :
         threads' = [threads EXCEPT !.pc = FirstStatement(cfg), !.inst = inst,
                                    !.v = v, !.calls = <<>>]
    /\ UNCHANGED <<cfg, call, mem, boxes, invokes, statics, env, last>>

\* the setter is over
SetterDone(th, outcome) ==
    /\ last' = [op |-> "set_ref", inst |-> th.inst, value |-> th.v,
                outcome |-> outcome, calls |-> th.calls, slot |-> mem'.slot]
    /\ threads' = [IdleSetter EXCEPT !.sets = th.sets + 1]

\* NULL_CHECK(instance) / FIELD_NULL_CHECK(instance)
SetterNullCheck ==
    /\ cfg.part = "barrier"
    /\ threads.pc = "null_check"
    /\ mem' = mem
    /\ IF NULL_CHECK(cfg, threads.inst)
       THEN SetterDone(threads, "NullException")
       ELSE /\ threads' = [threads EXCEPT !.pc = "init"]
            /\ last' = last
    /\ UNCHANGED <<cfg, call, boxes, invokes, statics, env>>

\* ::il2cpp_functions::Init()
SetterInit ==
    /\ cfg.part = "barrier"
    /\ threads.pc = "init"
    /\ threads' = [threads EXCEPT !.pc = "wbarrier", !.calls = Append(@, "Init")]
    /\ UNCHANGED <<cfg, call, mem, boxes, invokes, statics, env, last>>

\* ::il2cpp_functions::gc_wbarrier_set_field(instance, getAtOffset<offset>(instance), v);
\* through a null instance the call is undefined: it faults or stores nowhere
SetterWBarrier ==
    /\ cfg.part = "barrier"
    /\ threads.pc = "wbarrier"
    /\ LET th == [threads EXCEPT !.calls = Append(@, "gc_wbarrier_set_field")]
       IN  IF th.inst = "null"
           THEN /\ mem' = mem
                /\ \E o \in {"fault", "done"} : SetterDone(th, o)
           ELSE /\ mem' = gc_wbarrier_set_field(mem, th.v)
                /\ SetterDone(th, "done")
    /\ UNCHANGED <<cfg, call, boxes, invokes, statics, env>>

\* the collector looks at the slot and at the registered barriers
CollectorScan ==
    /\ cfg.part = "barrier"
    /\ env.scans < MaxSets
    /\ env' = [env EXCEPT !.scans = @ + 1, !.seen = mem.slot,
                          !.unregistered = @ \/ (mem.slot # "null"
                                                  /\ mem.slot \notin mem.registered)]
    /\ UNCHANGED <<cfg, call, mem, boxes, invokes, statics, threads, last>>

NextBarrier ==
    CallSetter \/ SetterNullCheck \/ SetterInit \/ SetterWBarrier \/ CollectorScan

SpecBarrier == InitBarrier /\ [][NextBarrier]_vars

\* C11: a reference field of a heap instance changes only inside the call of
\* gc_wbarrier_set_field, so at no moment, and in no scan of the collector,
\* does the slot hold a handle whose write barrier is not registered.
C11_StoreOnlyInsideBarrier ==
    /\ (mem.slot # "null" => mem.slot \in mem.registered)
    /\ ~env.unregistered
    /\ (last.op = "set_ref" /\ last.outcome = "done" /\ last.inst = "obj") =>
          /\ last.slot = last.value
          /\ CountOf(last.calls, "gc_wbarrier_set_field") = 1

C11_Witness ==
    /\ last.op = "set_ref" /\ last.outcome = "done" /\ last.inst = "obj"
    /\ last.value = "h2"
    /\ env.seen = "h1"
    /\ mem.registered = {"h1", "h2"}


(***************************************************************************)
(* Null checks of the instance field accessors.                            *)
(*                                                                         *)
(* The heap accessors of the first two revisions carry a null check that   *)
(* a build flag switches on: NULL_CHECK calls check_null, which for an     *)
(* instance convertible to UnityEngine::Object* also reads m_CachedPtr;    *)
(* CORDL_FIELD_NULL_CHECK tests the handle alone.  The accessors are those *)
(* of SpecField, here on heap instances that fit the field, with the       *)
(* instance type a UnityEngine::Object or not.                             *)
(***************************************************************************)

NullCheckCfgs ==
    {c \in [part : {"field"}, rev : FieldRevs, container : {"heap"},
            offset_checks : BOOLEAN, variant : {"part_003"},
            null_checks : BOOLEAN, kind : FieldKinds,
            offset : 0 .. MaxOffset, instance_sz : {ArenaSize},
            unity : BOOLEAN] :
        ~HasNullCheck(c) => ~c.null_checks}

InitNullCheck ==
    /\ cfg \in NullCheckCfgs
    /\ call = IdleCall
    /\ mem = [i \in 1 .. ArenaSize |-> 0]
    /\ boxes = <<>>
    /\ invokes = 0
    /\ statics = IdleStatics
    /\ threads = IdleThreads
    /\ env = IdleEnv
    /\ last = NoOp

SpecNullCheck == InitNullCheck /\ [][NextField]_vars

\* C12: with the field null checks enabled, a get or set on a
\* UnityEngine::Object instance whose handle is non-null but whose cached
\* pointer is null throws NullException, accesses no field and calls nothing
\* of the runtime; the cached pointer is read only for a non-null handle.
C12_DeadUnityObjectThrows ==
    /\ (IsFieldOp /\ cfg.null_checks /\ cfg.unity /\ last.inst = "dead"
          /\ last.outcome # "rejected") =>
            /\ last.outcome = "NullException"
            /\ ~last.accessed
            /\ last.calls = <<>>
    /\ (IsFieldOp /\ last.cached_read) => last.inst # "null"

\* C13: with the field null checks enabled, a get or set through a heap
\* instance whose handle is null throws NullException before anything else:
\* the memory is unchanged, no field is accessed, the write barrier and
\* il2cpp_functions::Init are not called.
C13_NullHandleThrowsFirst ==
    [][(/\ cfg.null_checks /\ cfg.container = "heap"
        /\ last'.op \in {"set", "get"} /\ last'.inst = "null"
        /\ last'.outcome # "rejected") =>
          /\ last'.outcome = "NullException"
          /\ last'.calls = <<>>
          /\ ~last'.accessed
          /\ ~last'.cached_read
          /\ mem' = mem]_vars

C13_Witness ==
    /\ IsFieldOp /\ cfg.null_checks /\ cfg.kind = "Ref"
    /\ last.op = "set" /\ last.inst = "null" /\ last.outcome = "NullException"
    /\ last.value = <<1, 1>>
    /\ last.prev.op = "set" /\ last.prev.outcome = "done"
    /\ mem # [i \in 1 .. ArenaSize |-> 0]

\* C14: with the field null checks disabled no accessor throws NullException
\* and none evaluates check_null or reads the cached pointer, for every
\* instance, the null one included, and whatever the offset check is set to.
C14_DisabledChecksNeverThrow ==
    (IsFieldOp /\ ~cfg.null_checks) =>
        /\ last.outcome # "NullException"
        /\ ~last.cached_read

C14_Witness ==
    /\ IsFieldOp /\ ~cfg.null_checks /\ HasNullCheck(cfg)
    /\ cfg.unity /\ cfg.offset_checks
    /\ last.inst = "null" /\ last.outcome = "done"
    /\ last.prev.op \in {"set", "get"} /\ last.prev.inst = "dead"
    /\ last.prev.outcome = "done"


(***************************************************************************)
(* What getInstanceField hands to its caller.                              *)
(*                                                                         *)
(* The caller keeps the result of a getter of a Value or Trivial field     *)
(* and then sets the field again, or writes to the result.  A getter that  *)
(* returns T& / T const& hands out the bytes of the instance themselves, a *)
(* getter that returns T hands out bytes of its own.                       *)
(***************************************************************************)

CopyCfgs ==
    {c \in [part : {"field"}, rev : FieldRevs, container : {"heap", "array"},
            offset_checks : {FALSE}, variant : {"part_003"},
            null_checks : {FALSE}, kind : {"Value", "Trivial"},
            offset : 0 .. MaxOffset, instance_sz : {ArenaSize},
            unity : {FALSE}, const_inst : BOOLEAN] :
        \* only the second revision overloads on the constness of InstT
        c.rev # "field_utils_2" => ~c.const_inst}

NotHolding == [part |-> "copy", holding |-> FALSE, alias |-> FALSE,
               writable |-> FALSE, got |-> <<>>, own |-> <<>>]

\* the bytes the caller sees in the result it holds
Observed(c, m, h) ==
    IF h.alias THEN ReadField(m, c.offset, SizeOf(c.kind)) ELSE h.own

InitCopy ==
    /\ cfg \in CopyCfgs
    /\ call = IdleCall
    /\ mem \in [1 .. ArenaSize -> Bytes]
    /\ boxes = <<>>
    /\ invokes = 0
    /\ statics = IdleStatics
    /\ threads = IdleThreads
    /\ env = NotHolding
    /\ last = NoOp

\* auto&& r = getInstanceField<T, offset>(instance)
HoldResult ==
    /\ env.part = "copy"
    /\ \E r \in getInstanceField(cfg, mem, "obj") :
         /\ r.outcome = "done"
         /\ env' = [part |-> "copy", holding |-> TRUE,
                    alias |-> GetterAliases(cfg),
                    writable |-> ~cfg.const_inst,
                    got |-> r.result, own |-> r.result]
         /\ last' = [op |-> "hold", value |-> r.result, before |-> mem]
    /\ UNCHANGED <<cfg, call, mem, boxes, invokes, statics, threads>>

\* setInstanceField<T, offset>(instance, v) while r is held
SetWhileHeld ==
    /\ env.part = "copy" /\ env.holding
    /\ \E v \in FieldValues(cfg.kind) :
         \E r \in setInstanceField(cfg, mem, "obj", v) :
            /\ r.outcome = "done"
            /\ mem' = r.mem
            /\ last' = [op |-> "set_held", value |-> v, before |-> mem]
    /\ UNCHANGED <<cfg, call, boxes, invokes, statics, threads, env>>

\* r = v: a write to the result the caller holds
ModifyResult ==
    /\ env.part = "copy" /\ env.holding /\ env.writable
    /\ \E v \in FieldValues(cfg.kind) :
         /\ IF env.alias
            THEN mem' = memcpy(mem, cfg.offset, v) /\ env' = env
            ELSE mem' = mem /\ env' = [env EXCEPT !.own = v]
         /\ last' = [op |-> "modify", value |-> v, before |-> mem]
    /\ UNCHANGED <<cfg, call, boxes, invokes, statics, threads>>

NextCopy == HoldResult \/ SetWhileHeld \/ ModifyResult

SpecCopy == InitCopy /\ [][NextCopy]_vars

\* C15: getInstanceField of a Value or Trivial field returns a fresh copy: a
\* later set at the same offset leaves the value the caller holds as it was
\* when read, and a write to the value the caller holds leaves the memory of
\* the instance unchanged.
C15_GetterReturnsFreshCopy ==
    (env.part = "copy" /\ env.holding) =>
        /\ (last.op = "set_held" => Observed(cfg, mem, env) = env.got)
        /\ (last.op = "modify" => mem = last.before)


(***************************************************************************)
(* Type classification: il2cpp_value_type / il2cpp_reference_type.         *)
(*                                                                         *)
(* A type is described by what the concepts look at: the inline storage    *)
(* member, convert() with the constructors from void* and nullptr_t, the   *)
(* __CORDL_IS_VALUE_TYPE marker, an explicit CORDL_REF_TYPE /              *)
(* CORDL_VAL_TYPE specialisation, and, for an instance of a class          *)
(* template, the CORDL_GEN_REF_TYPE / CORDL_GEN_VAL_TYPE of the template.  *)
(* Inside a requires-expression `e == true;` is a simple requirement: it   *)
(* asks that e == true is a valid expression, not that it is true;         *)
(* `requires(e);` asks that e is true.                                     *)
(***************************************************************************)

\* the revisions of the concepts: part_000:285-300, _config.hpp:73-105,
\* part_002:10-63, part_002:108-182, part_001:19-135
ClassifyRevs == {"part_000", "config", "part_002_a", "part_002_b", "part_001"}

HasTraitOverrides(rev) == rev \in {"part_002_b", "part_001"}

TypeShapes(rev) ==
    {t \in [storage : {"none", "__instance", "instance"},
            convertible : BOOLEAN,
            marker : {"none", "true", "false"},
            override : {"none", "ref", "val"},
            generic : {"not_template", "gen_ref", "gen_val"}] :
        /\ (~HasTraitOverrides(rev) => t.override = "none")
        \* an instance of a class template whose GenRefTypeTrait is not
        \* specialised does not compile against part_001; the other
        \* revisions do not look at the template
        /\ (rev # "part_001" => t.generic = "not_template")}

\* value_marker_check_v<T, check> / value_marker_check<T, check>::value
value_marker_check_v(t, check) ==
    t.marker # "none" /\ ((t.marker = "true") = check)

il2cpp_value_type_requirements(rev, t) ==
    CASE rev = "part_000" ->
            \* T::__CORDL_IS_VALUE_TYPE == true; has to be a valid expression
            t.storage = "__instance" /\ t.marker # "none"
      [] rev \in {"config", "part_002_a"} ->
            \* value_marker_check<T, true>::value == true; is always valid
            t.storage = "__instance"
      [] rev = "part_002_b" ->
            t.storage = "__instance" /\ value_marker_check_v(t, TRUE)
      [] OTHER ->
            t.storage = "instance" /\ value_marker_check_v(t, TRUE)

il2cpp_reference_type_requirements(rev, t) ==
    CASE rev = "part_000" ->
            \* { bool_constant<...>() || ... } -> std::same_as<std::true_type>:
            \* the expression is a bool
            t.convertible /\ t.marker # "none" /\ FALSE
      [] rev \in {"config", "part_002_a"} ->
            t.convertible
      [] OTHER ->
            t.convertible /\ value_marker_check_v(t, FALSE)

\* RefTypeTrait<T>::value: the explicit specialisation if there is one, the
\* constrained one if T meets the requirements, else no value (not satisfied)
RefTypeTrait(rev, t) ==
    IF t.override # "none" THEN t.override = "ref"
    ELSE il2cpp_reference_type_requirements(rev, t)

ValueTypeTrait(rev, t) ==
    IF t.override # "none" THEN t.override = "val"
    ELSE il2cpp_value_type_requirements(rev, t)

\* RefDecompose<T<TArgs...>>::value = GenRefTypeTrait<T>::value
RefDecompose(t) == t.generic = "gen_ref"

ValueDecompose(t) == t.generic = "gen_val"

il2cpp_reference_type(rev, t) ==
    CASE rev \in {"part_000", "config"} -> il2cpp_reference_type_requirements(rev, t)
      [] rev \in {"part_002_a", "part_002_b"} -> RefTypeTrait(rev, t)
      [] OTHER -> RefDecompose(t) \/ RefTypeTrait(rev, t)

il2cpp_value_type(rev, t) ==
    CASE rev \in {"part_000", "config", "part_002_a"} ->
            il2cpp_value_type_requirements(rev, t)
      [] rev = "part_002_b" -> ValueTypeTrait(rev, t)
      [] OTHER -> ValueDecompose(t) \/ ValueTypeTrait(rev, t)

InitClassify ==
    /\ cfg \in {c \in [part : {"classify"}, rev : ClassifyRevs,
                       t : UNION {TypeShapes(r) : r \in ClassifyRevs}] :
                  c.t \in TypeShapes(c.rev)}
    /\ call = IdleCall
    /\ mem = IdleMem
    /\ boxes = <<>>
    /\ invokes = 0
    /\ statics = IdleStatics
    /\ threads = IdleThreads
    /\ env = IdleEnv
    /\ last = NoOp

\* the concepts evaluated for T
Classify ==
    /\ cfg.part = "classify" /\ last = NoOp
    /\ last' = [op |-> "classify",
                ref |-> il2cpp_reference_type(cfg.rev, cfg.t),
                val |-> il2cpp_value_type(cfg.rev, cfg.t),
                ref_by_shape |-> il2cpp_reference_type_requirements(cfg.rev, cfg.t),
                val_by_shape |-> il2cpp_value_type_requirements(cfg.rev, cfg.t)]
    /\ UNCHANGED <<cfg, call, mem, boxes, invokes, statics, threads, env>>

NextClassify == Classify

SpecClassify == InitClassify /\ [][NextClassify]_vars

\* C16: for a type with an explicit override (CORDL_REF_TYPE or
\* CORDL_VAL_TYPE) il2cpp_reference_type and il2cpp_value_type give exactly
\* the verdict of the override, whatever the shape of the type and whatever
\* GenRefTypeTrait / GenValueTypeTrait say.
C16_OverrideDecides ==
    (last.op = "classify" /\ cfg.t.override # "none") =>
        /\ last.ref = (cfg.t.override = "ref")
        /\ last.val = (cfg.t.override = "val")

\* C17: in every revision the classification by shape respects the value
\* marker: a type is a Value by shape only if it has the inline storage
\* member and its marker is true, a type whose marker is true is never a
\* Reference by shape, a type whose marker is false is never a Value by shape.
C17_ShapeRespectsMarker ==
    last.op = "classify" =>
        /\ (last.val_by_shape =>
              cfg.t.storage # "none" /\ cfg.t.marker = "true")
        /\ (cfg.t.marker = "true" => ~last.ref_by_shape)
        /\ (cfg.t.marker = "false" => ~last.val_by_shape)


(***************************************************************************)
(* Argument marshaling and return values of RunMethodRethrow (SpecInvoke). *)
(***************************************************************************)

\* the pointer C18 expects for one argument
MarshaledAs(arg) ==
    CASE arg.kind = "nullptr" -> "null"
      [] arg.kind \in {"RefWrapper", "Pointer"} -> arg.handle
      [] arg.kind \in {"Wrapper", "ConstWrapper"} ->
           IF arg.handle = "o_boxed" THEN "payload_of_o_boxed" ELSE arg.handle
      [] OTHER -> "address_of_arg"

\* C18: RunMethodRethrow marshals exactly one pointer per argument, in
\* argument order: null for nullptr, convert() for a Reference wrapper, the
\* pointer itself for a raw pointer, the unboxed payload for an
\* Il2CppWrapperType that holds a boxed value and null for a null one, and
\* the address of the argument's own storage for every other argument.
C18_OnePointerPerArgument ==
    (IsInvoke /\ cfg.rev = "cordl_internals" /\ last.reported # "not_called") =>
        /\ Len(last.invoked.params) = Len(call.args)
        /\ \A i \in 1 .. Len(call.args) :
              last.invoked.params[i] = MarshaledAs(call.args[i])


\* C19: after a successful invoke with a non-void TOut, a boxed value return
\* is unboxed before the box is released, il2cpp_GC_free is called exactly
\* once and the value returned is the payload the box held; a Reference or
\* pointer TOut gets the returned handle unchanged and il2cpp_GC_free is not
\* called.
C19_ReturnValue ==
    (IsInvoke /\ cfg.rev = "cordl_internals" /\ call.tout # "void"
       /\ last.outcome.kind = "returned") =>
        IF call.tout = "BoxedValue"
        THEN /\ Len(last.calls) >= 2
             /\ last.calls[Len(last.calls) - 1] = "object_unbox"
             /\ last.calls[Len(last.calls)] = "GC_free"
             /\ CountOf(last.calls, "GC_free") = 1
             /\ last.outcome.value = call.res.payload
        ELSE /\ last.outcome.value = call.res.ret
             /\ CountOf(last.calls, "GC_free") = 0

C19_Witness ==
    /\ IsInvoke /\ cfg.rev = "cordl_internals"
    /\ call.tout = "BoxedValue" /\ call.res.payload = "p2"
    /\ last.outcome.kind = "returned" /\ last.outcome.value = "p2"
    /\ call.args = <<[kind |-> "Wrapper", handle |-> "o_boxed"]>>
    /\ CountOf(last.calls, "object_unbox") = 2

\* C20: a null MethodInfo aborts at CRASH_UNLESS before any other step: the
\* receiver is not extracted, no null check runs, nothing is marshaled,
\* runtime_invoke is not called, neither NullException nor
\* RunMethodException is thrown.
C20_NullMethodCrashesFirst ==
    (IsInvoke /\ call.method = NullMethod) =>
        /\ last.outcome.kind = "crash"
        /\ last.calls = <<>>
        /\ last.reported = "not_called"
        /\ invokes = last.invokes_before

C20_Witness ==
    /\ IsInvoke /\ call.method = NullMethod
    /\ last.outcome.kind = "crash"
    /\ cfg.rev = "cordl_internals" /\ cfg.null_checks
    /\ call.recv = [kind |-> "ObjPtr", handle |-> "o_boxed"]
    /\ Len(call.args) = 1


\* C21: the receiver check applies only to instance methods on Reference
\* receivers: for a method whose STATIC flag is set, or a receiver that is not
\* Reference-classified, RunMethodRethrow never throws NullException,
\* whatever the receiver's handle, and calls runtime_invoke exactly once.
C21_CheckOnlyForInstanceMethodsOnReferences ==
    (IsInvoke /\ call.method # NullMethod
       /\ (call.method.static \/ ~IsReferenceType(call.recv.kind))) =>
        /\ last.outcome.kind # "NullException"
        /\ CountOf(last.calls, "runtime_invoke") = 1
        /\ invokes = last.invokes_before + 1

C21_Witness ==
    /\ IsInvoke /\ cfg.null_checks /\ ~cfg.allow_invalid_unity
    /\ call.method.static
    /\ call.recv = [kind |-> "UnityRef", handle |-> "null"]
    /\ last.outcome.kind = "returned"
    /\ invokes = 1

\* C22: for an instance method on a UnityEngine::Object receiver with the
\* null checks enabled: without ALLOW_INVALID_UNITY_METHOD_CALLS a non-null
\* handle whose cached pointer is null throws NullException and
\* runtime_invoke is not called, and the cached pointer is not read for a
\* null handle; with ALLOW_INVALID_UNITY_METHOD_CALLS the cached pointer is
\* never read and the call is made.
C22_DeadUnityReceiver ==
    (IsInvoke /\ call.method # NullMethod /\ ~call.method.static
       /\ IsUnityType(call.recv.kind) /\ cfg.null_checks) =>
        IF ~cfg.allow_invalid_unity
        THEN /\ (call.recv.handle # "null" /\ env.dead) =>
                   /\ last.outcome.kind = "NullException"
                   /\ CountOf(last.calls, "runtime_invoke") = 0
                   /\ invokes = last.invokes_before
             /\ call.recv.handle = "null" =>
                   CountOf(last.calls, "read_cachedptr") = 0
        ELSE /\ CountOf(last.calls, "read_cachedptr") = 0
             /\ call.recv.handle # "null" =>
                   CountOf(last.calls, "runtime_invoke") = 1

C22_Witness ==
    /\ IsInvoke /\ cfg.null_checks /\ ~cfg.allow_invalid_unity
    /\ cfg.rev = "method_utils"
    /\ call.method = [id |-> "m_inst", static |-> FALSE]
    /\ call.recv = [kind |-> "UnityRef", handle |-> "o_unity"]
    /\ env.dead
    /\ last.outcome.kind = "NullException"
    /\ last.calls = <<"read_cachedptr">>

\* the call of the state with checkTypes set to b
RunWithCheckTypes(b) ==
    RunMethodRethrow_internals(cfg, call.recv, call.method, call.args,
                               call.tout, b, call.res, env.dead)

\* the runtime calls of a run, the type extraction left out
WithoutExtractType(calls) == SelectSeq(calls, LAMBDA c : c # "ExtractType")

TripleCfgs ==
    {c \in [part : {"triple"}, rev : {"field_utils_1", "field_utils_2"},
            container : {"heap", "array"}, kind : FieldKinds,
            variant : OffsetVariants, offset : 0 .. MaxOffset,
            inst_sizeof : 0 .. MaxInst, inst_reported : 0 .. MaxInst,
            t_sizeof : 1 .. PtrSize, t_reported : 1 .. PtrSize] :
        \* std::array<std::byte, sz>: the one size is sz
        /\ (c.container = "array" => c.inst_reported = c.inst_sizeof)
        \* a reference wrapper is one pointer
        /\ (c.kind = "Ref" => c.t_sizeof = PtrSize /\ c.t_reported = PtrSize)
        /\ (c.kind = "Trivial" => c.t_reported = c.t_sizeof)}

\* the first argument of OFFSET_CHECK in the accessor op of c
CheckedInstanceSize(c, op) ==
    IF c.container = "array" THEN c.inst_sizeof
    ELSE IF c.rev = "field_utils_1"
    THEN IF op = "set" /\ c.kind = "Trivial"
         THEN c.inst_reported          \* il2cpp_instance_sizeof(InstT)
         ELSE c.inst_sizeof            \* sizeof(std::remove_pointer_t<InstT>)
    ELSE IF op = "set"
         THEN c.inst_reported          \* il2cpp_instance_sizeof(InstT)
         ELSE c.inst_sizeof            \* sizeof(std::remove_pointer_t<InstT>)

\* the third argument of OFFSET_CHECK in the accessor op of c
CheckedValueSize(c, op) ==
    IF c.rev = "field_utils_2" /\ c.container = "heap" /\ op = "get"
    THEN c.t_sizeof                    \* the one getter for every T: sizeof(T)
    ELSE CASE c.kind = "Ref" -> PtrSize            \* sizeof(void*)
           [] c.kind = "Value" -> c.t_reported     \* il2cpp_instance_sizeof(T)
           [] OTHER -> c.t_sizeof                  \* sizeof(T)

\* OFFSET_CHECK(instance_size, offset, value_size, message) of the accessor
CheckedTriple(c, op) ==
    <<CheckedInstanceSize(c, op), c.offset, CheckedValueSize(c, op)>>

InitTriple ==
    /\ cfg \in TripleCfgs
    /\ call = IdleCall
    /\ mem = IdleMem
    /\ boxes = <<>>
    /\ invokes = 0
    /\ statics = IdleStatics
    /\ threads = IdleThreads
    /\ env = IdleEnv
    /\ last = NoOp

\* the build instantiates the getter and the setter of the field
InstantiateAccessors ==
    /\ cfg.part = "triple" /\ last = NoOp
    /\ LET st == CheckedTriple(cfg, "set")
           gt == CheckedTriple(cfg, "get")
       IN  last' = [op |-> "triples", set |-> st, get |-> gt,
                    set_ok |-> offset_check_v(cfg.variant, st[1], st[2], st[3]),
                    get_ok |-> offset_check_v(cfg.variant, gt[1], gt[2], gt[3])]
    /\ UNCHANGED <<cfg, call, mem, boxes, invokes, statics, threads, env>>

NextTriple == InstantiateAccessors

SpecTriple == InitTriple /\ [][NextTriple]_vars

\* C24: for the same instance type, offset and field type getInstanceField
\* and setInstanceField submit the same triple (size of the instance, offset,
\* size of the field) to the bounds check, so a get is accepted exactly when
\* the matching set is accepted.
C24_SameTripleForGetAndSet ==
    last.op = "triples" =>
        /\ last.set = last.get
        /\ last.set_ok = last.get_ok


\* C25: classification is exclusive: for every type, whatever its per-type
\* override, the generic override of its template and its shape,
\* il2cpp_reference_type and il2cpp_value_type are never both true.
C25_ClassificationExclusive ==
    (last.op = "classify" /\ HasTraitOverrides(cfg.rev)) =>
        ~(last.ref /\ last.val)


C27_AcceptedImpliesTrulyInBounds ==
    (last.op = "offset_check" /\ last.accepted) =>
        call.offset + call.value_sz <= call.instance_sz


(***************************************************************************)
(* Frame of the instance field accessors.                                  *)
(*                                                                         *)
(* The accessors of SpecField, started on an instance whose bytes are      *)
(* arbitrary: the other fields of the object hold whatever was stored in   *)
(* them before.                                                            *)
(***************************************************************************)
FrameCfgs == {c \in FieldCfgs : c.variant = "part_003"}

InitFrame ==
    /\ cfg \in FrameCfgs
    /\ call = IdleCall
    /\ mem \in [1 .. ArenaSize -> Bytes]
    /\ boxes = <<>>
    /\ invokes = 0
    /\ statics = IdleStatics
    /\ threads = IdleThreads
    /\ env = IdleEnv
    /\ last = NoOp

SpecFrame == InitFrame /\ [][NextField]_vars

\* the bytes of the field: [offset, offset + sizeof(T))
FieldBytes(c) == (c.offset + 1) .. (c.offset + SizeOf(c.kind))

\* C28: setInstanceField at offset o with field size n changes only the
\* bytes [o, o + n) of the instance, and when it completes on an object those
\* bytes are the bytes of the value it was given; getInstanceField changes no
\* byte of the instance.
C28_OnlyFieldBytesChange ==
    [][cfg.part = "field" =>
         /\ last'.op = "set" =>
              /\ \A i \in (1 .. ArenaSize) \ FieldBytes(cfg) : mem'[i] = mem[i]
              /\ (last'.outcome = "done" /\ last'.inst = "obj") =>
                    ReadField(mem', cfg.offset, SizeOf(cfg.kind)) = last'.value
              /\ last'.outcome \in {"rejected", "NullException"} => mem' = mem
         /\ (last'.op = "get" /\ last' # last) => mem' = mem]_vars

C28_Witness ==
    /\ cfg.part = "field" /\ InsideObject(cfg)
    /\ cfg.kind = "Trivial" /\ cfg.offset = 1
    /\ last.op = "set" /\ last.outcome = "done" /\ last.inst = "obj"
    /\ last.value = <<0>>
    /\ mem = <<1, 0, 1>>


\* C29: no entry point of the runtime is called before il2cpp_functions::Init():
\* an operation that crosses into the runtime calls Init() before its first
\* runtime call.  Stated for the boxing bridge, none of whose operations is
\* preceded by another that would have called Init(): every value_box and
\* every object_unbox among the calls of a Box or an Unbox comes after a call
\* of Init by the same operation.
C29_InitBeforeRuntimeCalls ==
    last.op \in {"Box", "Unbox"} =>
        \A i \in 1 .. Len(last.calls) :
            last.calls[i].fn \in {"value_box", "object_unbox"} =>
                \E j \in 1 .. (i - 1) : last.calls[j].fn = "Init"


\* C30: a set of a Reference field inside an inline value buffer copies the
\* handle-sized raw value into the bytes [offset, offset + handle size) of the
\* buffer and calls neither the write barrier nor another runtime function
\* nor the null check; the write barrier is called only by sets of Reference
\* fields on heap instances, never by sets of Value or Trivial fields.
C30_NoBarrierInsideBuffers ==
    (cfg.part = "field" /\ last.op = "set") =>
        /\ (cfg.kind = "Ref" /\ cfg.container = "array") =>
              /\ last.calls = <<>>
              /\ last.outcome # "NullException"
              /\ (last.outcome = "done" /\ InsideObject(cfg)) =>
                    ReadField(mem, cfg.offset, PtrSize) = last.value
        /\ CountOf(last.calls, "gc_wbarrier_set_field") > 0 =>
              (cfg.kind = "Ref" /\ cfg.container = "heap")

=============================================================================
